---- MODULE Spec2Model ----
(***************************************************************************)
(* Model of src/main.py (Snake game, pygame).                              *)
(*                                                                         *)
(* The game session is the state of one SnakeGame object: snake (list of   *)
(* cells, head first), direction, food_pos, score, game_over.  The frame   *)
(* loop alternates _handle_input and _update_game_state.  The grid is      *)
(* WIDTH x HEIGHT pixels in cells of BLOCK_SIZE; the model keeps           *)
(* BLOCK_SIZE = 20 and scales the number of columns and rows down          *)
(* (2*HalfCols by 2*HalfRows cells, both even as 30 and 20 are in the      *)
(* source, so that the centre (WIDTH // 2, HEIGHT // 2) is grid-aligned).  *)
(***************************************************************************)
EXTENDS Integers, Sequences, FiniteSets, TLC

(* ------------------------------ bounds --------------------------------- *)
\* half the number of grid columns (source: 15)
HalfCols == 1
\* half the number of grid rows (source: 10)
HalfRows == 1
\* ticks that would grow the snake beyond MaxLen cells are not explored
MaxLen == 4
\* largest number of events pygame.event.get() returns in one frame
MaxEvents == 2
\* longest run of whitespace typed before or after a name
MaxPad == 1
\* longest name typed between the whitespace
MaxBody == 22

(* --------------------------- GameConfig -------------------------------- *)
BLOCK_SIZE == 20
WIDTH == 2 * HalfCols * BLOCK_SIZE
HEIGHT == 2 * HalfRows * BLOCK_SIZE
MAX_NAME_LENGTH == 20

(* --------------------------- Difficulty -------------------------------- *)
SLOW == 7
MEDIUM == 15
FAST == 25

VARIABLES
    snake,      \* self.snake: sequence of cells <<x, y>>, head at index 1
    direction,  \* self.direction: <<dx, dy>>
    food_pos,   \* self.food_pos: cell <<x, y>>
    score,      \* self.score
    game_over,  \* self.game_over
    pc,         \* position of run(): "input", "update", "over", "exit"
    events,     \* the list pygame.event.get() returned in the current frame
    outcome,    \* which branch the last _update_game_state call took
    name_pc,    \* position of get_player_name(): "prompt", "returned"
    entered,    \* the line the last input() call returned
    player_name, \* the value get_player_name() returned
    main_pc,    \* position of main(): "select", "construct", "run"
    choice,     \* the line the last input() call of select_difficulty returned
    difficulty, \* main's local: the value select_difficulty() returned (0: none yet)
    self_player_name, \* self.player_name of the session main constructs
    self_difficulty   \* self.difficulty of that session (0: not constructed)

gameVars == <<snake, direction, food_pos, score, game_over, pc, events, outcome>>
nameVars == <<name_pc, entered, player_name>>
mainVars == <<main_pc, choice, difficulty, self_player_name, self_difficulty>>
vars == <<gameVars, nameVars, mainVars>>

(* ----------------------------- helpers --------------------------------- *)
Range(s) == {s[i] : i \in 1..Len(s)}

\* Python's None (falsy); every direction tuple is a non-empty tuple (truthy)
None == <<>>

\* mutant: stop is included, as with random.randint
RandRange_Inclusive(start, stop, step) ==
    {v \in start..stop : (v - start) % step = 0}

\* the values random.randrange(start, stop, step) can return
RandRange(start, stop, step) ==
    {v \in start..(stop - 1) : (v - start) % step = 0}

\* list.insert(0, x)
Insert0(s, x) == <<x>> \o s

\* list.pop() (the list that is left)
Pop(s) == SubSeq(s, 1, Len(s) - 1)

(* ------------------------- get_player_name ----------------------------- *)
\* a line is a sequence of one-character strings
Whitespace == {" ", "\t"}

\* no input() call has returned yet
NoInput == <<"no input">>

RECURSIVE LStrip(_)
LStrip(s) ==
    IF s # <<>> /\ Head(s) \in Whitespace THEN LStrip(Tail(s)) ELSE s

RECURSIVE RStrip(_)
RStrip(s) ==
    IF s # <<>> /\ s[Len(s)] \in Whitespace
    THEN RStrip(SubSeq(s, 1, Len(s) - 1))
    ELSE s

\* str.strip()
Strip(s) == RStrip(LStrip(s))

\* mutant: a name one character too long passes
NameAccepted_OffByOne(name) ==
    name # <<>> /\ ~(Len(name) > MAX_NAME_LENGTH + 1)

\* the two checks of the loop body: neither `not name` nor too long
NameAccepted(name) ==
    name # <<>> /\ ~(Len(name) > MAX_NAME_LENGTH)

\* the lines typed: whitespace, a name of n characters (with a blank at
\* position sp when that is inside it), whitespace
Pads == UNION {[1..n -> Whitespace] : n \in 0..MaxPad}

Body(n, sp) == [i \in 1..n |-> IF i = sp /\ 1 < i /\ i < n THEN " " ELSE "a"]

NameInputs ==
    {p1 \o Body(n, sp) \o p2 :
        p1 \in Pads, p2 \in Pads, n \in 0..MaxBody, sp \in {0, 2, MAX_NAME_LENGTH}}

\* one iteration of get_player_name's while loop
GetPlayerName ==
    /\ name_pc = "prompt"
    /\ \E raw \in NameInputs :
          LET name == Strip(raw)
          IN  /\ entered' = raw
              /\ IF NameAccepted(name)
                 THEN /\ name_pc' = "returned"
                      /\ player_name' = name
                 ELSE /\ name_pc' = "prompt"
                      /\ UNCHANGED player_name
    /\ UNCHANGED gameVars
    /\ UNCHANGED mainVars

(* --------------------------- SnakeGame --------------------------------- *)
\* _spawn_food: the cells one call can return
SpawnFood ==
    RandRange(0, WIDTH, BLOCK_SIZE) \X RandRange(0, HEIGHT, BLOCK_SIZE)

\* mutant: K_UP maps to a diagonal vector
KeyToDirection_Diagonal(key) ==
    CASE key = "K_UP"    -> <<BLOCK_SIZE, -BLOCK_SIZE>>
      [] key = "K_DOWN"  -> <<0, BLOCK_SIZE>>
      [] key = "K_LEFT"  -> <<-BLOCK_SIZE, 0>>
      [] key = "K_RIGHT" -> <<BLOCK_SIZE, 0>>
      [] OTHER           -> None

\* _key_to_direction: key_map.get(key)
KeyToDirection(key) ==
    CASE key = "K_UP"    -> <<0, -BLOCK_SIZE>>
      [] key = "K_DOWN"  -> <<0, BLOCK_SIZE>>
      [] key = "K_LEFT"  -> <<-BLOCK_SIZE, 0>>
      [] key = "K_RIGHT" -> <<BLOCK_SIZE, 0>>
      [] OTHER           -> None

\* mutant: no direction is rejected
IsValidDirection_AcceptAll(cur, d) == TRUE

\* mutant: the opposite direction is rejected only when the snake has a body
IsValidDirection_LongOnly(cur, d) ==
    Len(snake) = 1 \/ d # <<-cur[1], -cur[2]>>

\* _is_valid_direction, cur being self.direction at the time of the call
IsValidDirection(cur, d) ==
    LET opposite == <<-cur[1], -cur[2]>>
    IN  d # opposite

\* mutant: `new_direction and` is dropped, so None is stored for other keys
HandleEvent_NoNoneCheck(cur, event) ==
    IF event.type = "KEYDOWN"
    THEN LET new_direction == KeyToDirection(event.key)
         IN  IF IsValidDirection(cur, new_direction)
             THEN new_direction
             ELSE cur
    ELSE cur

\* the body of _handle_input's for loop for one event, on self.direction
HandleEvent(cur, event) ==
    IF event.type = "KEYDOWN"
    THEN LET new_direction == KeyToDirection(event.key)
         IN  IF new_direction # None /\ IsValidDirection(cur, new_direction)
             THEN new_direction
             ELSE cur
    ELSE cur

\* _handle_input over the event list evs: the direction it leaves and the
\* value it returns (FALSE at the first QUIT, the rest is not processed)
RECURSIVE HandleInputFrom(_, _)
HandleInputFrom(cur, evs) ==
    IF evs = <<>>
    THEN [direction |-> cur, running |-> TRUE]
    ELSE IF Head(evs).type = "QUIT"
         THEN [direction |-> cur, running |-> FALSE]
         ELSE HandleInputFrom(HandleEvent(cur, Head(evs)), Tail(evs))

HandleInput(evs) == HandleInputFrom(direction, evs)

\* new_head of _update_game_state
NewHead ==
    <<snake[1][1] + direction[1], snake[1][2] + direction[2]>>

\* mutant: the right and bottom walls are tested with > instead of >=
CheckCollision_OffByOne(head) ==
    LET x == head[1]
        y == head[2]
    IN  IF x < 0 \/ x > WIDTH \/ y < 0 \/ y > HEIGHT
        THEN "wall"
        ELSE IF head \in Range(snake)
             THEN "self"
             ELSE "none"

\* mutant: the top wall is not tested
CheckCollision_NoTopWall(head) ==
    LET x == head[1]
        y == head[2]
    IN  IF x < 0 \/ x >= WIDTH \/ y >= HEIGHT
        THEN "wall"
        ELSE IF head \in Range(snake)
             THEN "self"
             ELSE "none"

\* mutant: the self-collision test is missing
CheckCollision_NoSelf(head) ==
    LET x == head[1]
        y == head[2]
    IN  IF x < 0 \/ x >= WIDTH \/ y < 0 \/ y >= HEIGHT
        THEN "wall"
        ELSE "none"

\* _check_collision; the value names the return statement taken:
\* "wall" and "self" are the two `return True`, "none" is `return False`
CheckCollision(head) ==
    LET x == head[1]
        y == head[2]
    IN  IF x < 0 \/ x >= WIDTH \/ y < 0 \/ y >= HEIGHT
        THEN "wall"
        ELSE IF head \in Range(snake)
             THEN "self"
             ELSE "none"

\* mutant: the pop() is forgotten
MoveSnake_NoPop(s, new_head) == Insert0(s, new_head)

\* mutant: pop(0) instead of pop() removes the new head again
MoveSnake_PopHead(s, new_head) == Tail(Insert0(s, new_head))

\* the snake after a tick that eats no food: insert(0, new_head) then pop()
MoveSnake(s, new_head) == Pop(Insert0(s, new_head))

\* mutant: the score is not incremented
EatScore_Forgotten(s) == s

\* self.score += 1
EatScore(s) == s + 1

\* mutant: the tail is popped on an eating tick too
GrowSnake_AlsoPop(s, new_head) == Pop(Insert0(s, new_head))

\* the snake after a tick that eats the food: insert(0, new_head) only
GrowSnake(s, new_head) == Insert0(s, new_head)

\* mutant: the new head is inserted before the collision test
UpdateGameState_MoveFirst ==
    LET new_head == NewHead
        hit == CheckCollision(new_head)
    IN  IF hit # "none"
        THEN /\ snake' = Insert0(snake, new_head)
             /\ game_over' = TRUE
             /\ outcome' = hit
             /\ UNCHANGED <<direction, food_pos, score>>
        ELSE IF new_head = food_pos
             THEN /\ snake' = GrowSnake(snake, new_head)
                  /\ score' = EatScore(score)
                  /\ food_pos' \in SpawnFood
                  /\ outcome' = "ate"
                  /\ UNCHANGED <<direction, game_over>>
             ELSE /\ snake' = MoveSnake(snake, new_head)
                  /\ outcome' = "continued"
                  /\ UNCHANGED <<direction, food_pos, score, game_over>>

\* _update_game_state
UpdateGameState ==
    LET new_head == NewHead
        hit == CheckCollision(new_head)
    IN  IF hit # "none"
        THEN /\ game_over' = TRUE
             /\ outcome' = hit
             /\ UNCHANGED <<snake, direction, food_pos, score>>
        ELSE IF new_head = food_pos
             THEN /\ snake' = GrowSnake(snake, new_head)
                  /\ score' = EatScore(score)
                  /\ food_pos' \in SpawnFood
                  /\ outcome' = "ate"
                  /\ UNCHANGED <<direction, game_over>>
             ELSE /\ snake' = MoveSnake(snake, new_head)
                  /\ outcome' = "continued"
                  /\ UNCHANGED <<direction, food_pos, score, game_over>>

(* ------------------------- events of a frame --------------------------- *)
Keys == {"K_UP", "K_DOWN", "K_LEFT", "K_RIGHT", "K_SPACE"}

EventSet ==
    {[type |-> "KEYDOWN", key |-> k] : k \in Keys}
        \cup {[type |-> "QUIT", key |-> "none"]}

EventLists == UNION {[1..n -> EventSet] : n \in 0..MaxEvents}

(* ------------------------------ run ------------------------------------ *)
\* reset_game, called by __init__
Init ==
    /\ snake = <<<<WIDTH \div 2, HEIGHT \div 2>>>>
    /\ direction = <<BLOCK_SIZE, 0>>
    /\ food_pos \in SpawnFood
    /\ score = 0
    /\ game_over = FALSE
    /\ pc = "input"
    /\ events = <<>>
    /\ outcome = "none"
    /\ name_pc = "prompt"
    /\ entered = NoInput
    /\ player_name = <<>>
    /\ main_pc = "select"
    /\ choice = NoInput
    /\ difficulty = 0
    /\ self_player_name = <<>>
    /\ self_difficulty = 0

\* one frame's self._handle_input()
RunHandleInput ==
    /\ pc = "input"
    /\ \E evs \in EventLists :
          LET r == HandleInput(evs)
          IN  /\ events' = evs
              /\ direction' = r.direction
              /\ pc' = IF r.running THEN "update" ELSE "exit"
    /\ UNCHANGED <<snake, food_pos, score, game_over, outcome>>
    /\ UNCHANGED <<nameVars, mainVars>>

\* mutant: the loop goes on after game_over is set
RunUpdateGameState_NoStop ==
    /\ pc = "update"
    /\ (NewHead = food_pos /\ CheckCollision(NewHead) = "none")
          => Len(snake) < MaxLen
    /\ UpdateGameState
    /\ events' = <<>>
    /\ pc' = "input"
    /\ UNCHANGED <<nameVars, mainVars>>

\* one frame's self._update_game_state(); the loop ends when game_over is set
RunUpdateGameState ==
    /\ pc = "update"
    /\ (NewHead = food_pos /\ CheckCollision(NewHead) = "none")
          => Len(snake) < MaxLen
    /\ UpdateGameState
    /\ events' = <<>>
    /\ pc' = IF game_over' THEN "over" ELSE "input"
    /\ UNCHANGED <<nameVars, mainVars>>

\* _draw_game_over_screen: waits for a QUIT or KEYDOWN event, then returns
DrawGameOverScreen ==
    /\ pc = "over"
    /\ pc' = "exit"
    /\ UNCHANGED <<snake, direction, food_pos, score, game_over, events, outcome>>
    /\ UNCHANGED <<nameVars, mainVars>>

Next == RunHandleInput \/ RunUpdateGameState \/ DrawGameOverScreen

Spec == Init /\ [][Next]_vars

\* the name prompt on its own
NameNext == GetPlayerName

NameSpec == Init /\ [][NameNext]_vars

(* ------------------------------ main ----------------------------------- *)
\* the lines typed at the difficulty menu
ChoiceInputs ==
    {p1 \o core \o p2 :
        p1 \in Pads, p2 \in Pads,
        core \in {<<>>, <<"1">>, <<"2">>, <<"3">>, <<"4">>, <<"1", "2">>}}

\* difficulty_map of select_difficulty
difficulty_map ==
    [c \in {<<"1">>, <<"2">>, <<"3">>} |->
        IF c = <<"1">> THEN SLOW ELSE IF c = <<"2">> THEN MEDIUM ELSE FAST]

\* one iteration of select_difficulty's while loop
SelectDifficulty ==
    /\ main_pc = "select"
    /\ \E raw \in ChoiceInputs :
          LET c == Strip(raw)
          IN  /\ choice' = raw
              /\ IF c \in DOMAIN difficulty_map
                 THEN /\ difficulty' = difficulty_map[c]
                      /\ main_pc' = "construct"
                 ELSE /\ main_pc' = "select"
                      /\ UNCHANGED difficulty
    /\ UNCHANGED <<self_player_name, self_difficulty>>
    /\ UNCHANGED <<gameVars, nameVars>>

\* SnakeGame.__init__ called with the positional arguments args: the
\* parameters are (player_name = "Player", difficulty = Difficulty.MEDIUM)
SnakeGameInit(args) ==
    [player_name |-> IF Len(args) >= 1 THEN args[1] ELSE <<"Player">>,
     difficulty  |-> IF Len(args) >= 2 THEN args[2] ELSE MEDIUM]

\* the arguments of main's call SnakeGame(difficulty)
MainArgs == <<difficulty>>

\* main: game = SnakeGame(difficulty); __init__ ends with reset_game()
MainConstruct ==
    /\ main_pc = "construct"
    /\ LET g == SnakeGameInit(MainArgs)
       IN  /\ self_player_name' = g.player_name
           /\ self_difficulty' = g.difficulty
    /\ snake' = <<<<WIDTH \div 2, HEIGHT \div 2>>>>
    /\ direction' = <<BLOCK_SIZE, 0>>
    /\ food_pos' \in SpawnFood
    /\ score' = 0
    /\ game_over' = FALSE
    /\ main_pc' = "run"
    /\ UNCHANGED <<pc, events, outcome, choice, difficulty>>
    /\ UNCHANGED nameVars

MainNext == SelectDifficulty \/ MainConstruct

MainSpec == Init /\ [][MainNext]_vars

(* ====================== properties of the game ========================= *)
\* the exact opposite of a direction vector
OppositeOf(d) == <<-d[1], -d[2]>>

\* every cell of the grid
GridCells ==
    {c \in (0..(WIDTH - 1)) \X (0..(HEIGHT - 1)) :
        c[1] % BLOCK_SIZE = 0 /\ c[2] % BLOCK_SIZE = 0}

\* a cell inside [0, WIDTH) x [0, HEIGHT)
InGrid(c) == 0 <= c[1] /\ c[1] < WIDTH /\ 0 <= c[2] /\ c[2] < HEIGHT

\* the frame's event list is the single key press k
OneKey(evs, k) == evs = <<[type |-> "KEYDOWN", key |-> k]>>

\* the frame's event list is one key press of the direction opposite to d
OneOppositeKey(evs, d) ==
    \E k \in Keys : OneKey(evs, k) /\ KeyToDirection(k) = OppositeOf(d)

\* C1: a tick that detects no collision leaves the snake's length unchanged,
\* except that the length grows by exactly 1 when the new head is the food cell.
C1_LengthPerTick ==
    [][(RunUpdateGameState /\ ~game_over /\ ~game_over')
         => Len(snake') = Len(snake) + (IF NewHead = food_pos THEN 1 ELSE 0)]_vars

C1_Witness ==
    /\ outcome = "ate"
    /\ Len(snake) = 2
    /\ ~game_over

\* C2: the score never decreases; a tick adds exactly 1 when it eats the food
\* (new head on the food cell, no collision) and 0 otherwise; no other step
\* changes it.
C2_ScorePerTick ==
    [][/\ score' >= score
       /\ RunUpdateGameState
            => score' = score + (IF NewHead = food_pos /\ InGrid(NewHead)
                                      /\ NewHead \notin Range(snake)
                                 THEN 1 ELSE 0)
       /\ ~RunUpdateGameState => score' = score]_vars

C2_Witness ==
    /\ outcome = "ate"
    /\ score = 2
    /\ Len(snake) = 3

\* C3: one key press of the direction exactly opposite to the current one,
\* handled while the snake has more than one cell, leaves the direction as
\* it was.
C3_OppositeRejected ==
    [][(RunHandleInput /\ Len(snake) > 1 /\ OneOppositeKey(events', direction))
         => direction' = direction]_vars

C3_Witness ==
    /\ pc = "update"
    /\ Len(snake) = 3
    /\ OneOppositeKey(events, direction)

C5_WallIffOutside ==
    [][RunUpdateGameState
         => /\ (outcome' = "wall") <=> ~InGrid(NewHead)
            /\ ~InGrid(NewHead) => game_over']_vars

\* a two-cell snake in the leftmost column moving left has hit the wall
C5_Witness ==
    /\ outcome = "wall"
    /\ game_over
    /\ Len(snake) = 2
    /\ snake[1][1] = 0
    /\ direction = <<-BLOCK_SIZE, 0>>

\* C6 (as stated): while a grid cell is free, the food cell is not a cell of
\* the snake.
C6_FoodOffSnake ==
    Range(snake) # GridCells => food_pos \notin Range(snake)

\* C7 (as stated): on a tick that eats no food, a new head on the current
\* tail cell (and on no other snake cell) is no collision and the game goes
\* on with the head on that cell; on a tick whose new head is the food cell,
\* a new head on the tail cell is a collision.
C7_TailCellFree ==
    [][/\ (RunUpdateGameState /\ InGrid(NewHead) /\ NewHead # food_pos
             /\ NewHead = snake[Len(snake)]
             /\ NewHead \notin Range(Pop(snake)))
            => (~game_over' /\ snake'[1] = NewHead)
       /\ (RunUpdateGameState /\ NewHead = food_pos
             /\ NewHead = snake[Len(snake)])
            => game_over']_vars

C9_BoardFullSignalled ==
    Range(snake) = GridCells
        => (food_pos \notin GridCells /\ pc \in {"over", "exit"})

(* =================== properties of the name prompt ===================== *)
\* positions of the characters of s that are not whitespace
Inked(s) == {i \in 1..Len(s) : s[i] \notin Whitespace}

Least(S) == CHOOSE i \in S : \A j \in S : i <= j

Greatest(S) == CHOOSE i \in S : \A j \in S : j <= i

\* s without the whitespace around it
Trimmed(s) ==
    IF Inked(s) = {} THEN <<>> ELSE SubSeq(s, Least(Inked(s)), Greatest(Inked(s)))

\* C10: the prompt returns only the entered line without its surrounding
\* whitespace, and only when that has 1 to MAX_NAME_LENGTH characters; after
\* an empty or over-length line nothing is returned and the prompt repeats.
C10_ValidNameOnly ==
    /\ name_pc = "returned"
         => /\ player_name = Trimmed(entered)
            /\ Len(player_name) >= 1
            /\ Len(player_name) <= MAX_NAME_LENGTH
    /\ name_pc = "prompt"
         => /\ player_name = <<>>
            /\ entered # NoInput
                 => (Trimmed(entered) = <<>>
                       \/ Len(Trimmed(entered)) > MAX_NAME_LENGTH)

\* a padded line whose name has exactly MAX_NAME_LENGTH characters, one of
\* them a blank, was returned without the padding
C10_Witness ==
    /\ name_pc = "returned"
    /\ Len(player_name) = MAX_NAME_LENGTH
    /\ Len(entered) = MAX_NAME_LENGTH + 2
    /\ " " \in Range(player_name)

(* ====================== properties of main ============================= *)
\* the difficulty a typed line selects
Selected(line) ==
    CASE Trimmed(line) = <<"1">> -> 7
      [] Trimmed(line) = <<"2">> -> 15
      [] Trimmed(line) = <<"3">> -> 25
      [] OTHER -> 0

\* C11 (as stated): choice 1/2/3 selects 7/15/25 ticks per second, and the
\* session main constructs stores exactly the selected difficulty.
C11_SessionDifficulty ==
    /\ main_pc # "select" => (difficulty = Selected(choice) /\ difficulty # 0)
    /\ main_pc = "run" => self_difficulty = Selected(choice)

(* =================== more properties of the game ======================= *)
\* the four direction vectors
Directions ==
    {<<BLOCK_SIZE, 0>>, <<-BLOCK_SIZE, 0>>, <<0, BLOCK_SIZE>>, <<0, -BLOCK_SIZE>>}

\* the absolute value
Abs(n) == IF n < 0 THEN -n ELSE n

\* C12 (as stated): while the snake has more than one cell, the direction a
\* tick is about to use is never the exact opposite of the direction the
\* previous tick used, whatever events the frame in between handled.
C12_NoReversalBetweenTicks ==
    [][(RunHandleInput /\ outcome # "none" /\ Len(snake) > 1 /\ pc' = "update")
         => direction' # OppositeOf(direction)]_vars

\* C13: a tick that detects a collision sets game_over and changes neither
\* the snake, the score, the food cell nor the direction.
C13_CollisionFrame ==
    [][(RunUpdateGameState /\ (~InGrid(NewHead) \/ NewHead \in Range(snake)))
         => /\ game_over'
            /\ UNCHANGED <<snake, score, food_pos, direction>>]_vars

C13_Witness ==
    /\ game_over
    /\ pc = "over"
    /\ outcome = "self"
    /\ Len(snake) = 3
    /\ score = 2

\* C14: every snake cell is inside the grid and grid-aligned.
C14_SnakeInGrid ==
    \A i \in 1..Len(snake) :
        /\ 0 <= snake[i][1] /\ snake[i][1] < WIDTH
        /\ 0 <= snake[i][2] /\ snake[i][2] < HEIGHT
        /\ snake[i][1] % BLOCK_SIZE = 0
        /\ snake[i][2] % BLOCK_SIZE = 0

\* the head has reached the top-left corner with a body behind it
C14_Witness ==
    /\ snake[1] = <<0, 0>>
    /\ Len(snake) = 3
    /\ outcome = "continued"

C16_InputFrame ==
    [][RunHandleInput
         => /\ UNCHANGED <<snake, food_pos, score, game_over>>
            /\ direction' \in Directions]_vars

\* a key without a direction and then K_UP were handled in one frame
C16_Witness ==
    /\ pc = "update"
    /\ Len(events) = 2
    /\ events[1] = [type |-> "KEYDOWN", key |-> "K_SPACE"]
    /\ events[2] = [type |-> "KEYDOWN", key |-> "K_UP"]
    /\ direction = <<0, -BLOCK_SIZE>>
    /\ Len(snake) = 2

\* C17: the food cell is inside the grid and grid-aligned.
C17_FoodInGrid ==
    /\ 0 <= food_pos[1] /\ food_pos[1] <= WIDTH - BLOCK_SIZE
    /\ 0 <= food_pos[2] /\ food_pos[2] <= HEIGHT - BLOCK_SIZE
    /\ food_pos[1] % BLOCK_SIZE = 0
    /\ food_pos[2] % BLOCK_SIZE = 0

\* the food was respawned in the last column and row
C17_Witness ==
    /\ outcome = "ate"
    /\ score = 2
    /\ food_pos = <<WIDTH - BLOCK_SIZE, HEIGHT - BLOCK_SIZE>>

\* C18: score = len(snake) - 1, so the snake has at least one cell.
C18_ScoreIsLength ==
    /\ score = Len(snake) - 1
    /\ Len(snake) >= 1

C18_Witness ==
    /\ score = 3
    /\ Len(snake) = 4

\* C19: the snake's cells are pairwise distinct.
C19_SnakeDistinct ==
    \A i \in 1..Len(snake) : \A j \in 1..Len(snake) :
        i # j => snake[i] # snake[j]

\* a three-cell snake has run into itself
C19_Witness ==
    /\ Len(snake) = 3
    /\ game_over
    /\ outcome = "self"
    /\ pc = "exit"

\* C20: consecutive snake cells differ by BLOCK_SIZE in exactly one
\* coordinate and by 0 in the other.
C20_SnakeContiguous ==
    \A i \in 1..(Len(snake) - 1) :
        LET dx == Abs(snake[i][1] - snake[i + 1][1])
            dy == Abs(snake[i][2] - snake[i + 1][2])
        IN  \/ (dx = BLOCK_SIZE /\ dy = 0)
            \/ (dx = 0 /\ dy = BLOCK_SIZE)

\* a four-cell snake with a bend
C20_Witness ==
    /\ Len(snake) = 4
    /\ snake[1][1] # snake[3][1]
    /\ snake[1][2] # snake[3][2]

====
